---- MODULE Spec2Model ----
(***************************************************************************)
(* Model of the reactmovie single-page application: the movie loader       *)
(* (fetchMovie, run once by the mount effect), the comment form            *)
(* (react-hook-form + yup schema, handleSubmit(onSubmit)) and the comment   *)
(* list (redux slice, addComment / deleteComment).                          *)
(*                                                                         *)
(* The repository ships two variants of App: src/src/App.jsx (axios,        *)
(* fallback movie on failure) and src/unnamed/part_000 (fetch, error        *)
(* screen on failure).  `variant` selects which one is running.             *)
(*                                                                         *)
(* JavaScript values are tagged records ([k |-> "null"], ...).  Strings    *)
(* typed by the user are sequences of one-character strings.  Numbers are   *)
(* fixed point, in tenths (2.5 is 25), so that a non-integer is a value.    *)
(***************************************************************************)
EXTENDS Integers, Sequences, FiniteSets, TLC

VARIABLES variant, pc, loading, movie, error, inflight, requests,
          fields, errors, comments, now, lastOp

vars == <<variant, pc, loading, movie, error, inflight, requests,
          fields, errors, comments, now, lastOp>>

loaderVars == <<variant, pc, loading, movie, error, inflight, requests>>

formVars == <<fields, errors, comments>>

----------------------------------------------------------------------------
(* Bounds of the model *)

MaxComments == 2

MaxClock == 1

(* Program constants *)

MaxCommentLen == 500

MinNote == 1

MaxNote == 5

MsPerDay == 86400000

----------------------------------------------------------------------------
(* JavaScript values *)

Null == [k |-> "null"]

Undefined == [k |-> "undefined"]

Str(s) == [k |-> "string", s |-> s]

Arr(items) == [k |-> "array", items |-> items]

EmptyObject == [k |-> "object"]

Variants == {"fallback", "errorScreen"}

ApiMovie ==
  [k |-> "movie", id |-> "42", original_title |-> "Api Movie",
   overview |-> "An overview", release_date |-> "01/01/2020",
   vote_average |-> 71, poster_path |-> "https:\\/\\/img\\/p.jpg",
   casts |-> <<"Actor">>]

FallbackMovie ==
  [k |-> "movie", id |-> "fallback-movie", original_title |-> "The Honey Games",
   overview |-> "When an overenthusiastic Maya accidentally embarrasses the Empress of Buzztropolis, she is forced to unite with a team of misfit bugs and compete in the Honey Games for a chance to save her hive.",
   release_date |-> "03/02/2018",
   vote_average |-> 66, poster_path |-> "", casts |-> <<>>]

LoadErrorMessage == Str("Erreur lors du chargement du film")

(* Bodies the endpoint can answer with: JSON text that parses to a value,  *)
(* or text that is not JSON (the text is kept as a character sequence).     *)
JsonBody(v) == [t |-> "json", v |-> v]

TextBody(s) == [t |-> "text", s |-> s]

Bodies ==
  { JsonBody(Arr(<<ApiMovie>>)), JsonBody(Arr(<<>>)), JsonBody(Null),
    JsonBody(EmptyObject), TextBody(<<"<", "h">>), TextBody(<<>>) }

NetworkError == [net |-> "error"]

HttpResponse(status, body) == [net |-> "ok", status |-> status, body |-> body]

Responses ==
  {NetworkError} \cup {HttpResponse(404, TextBody(<<"N">>))}
    \cup {HttpResponse(200, b) : b \in Bodies}

ResponseOk(r) == r.status >= 200 /\ r.status <= 299

(* data[0]: element zero of an array, character zero of a string, undefined *)
(* on an object without that key, a TypeError on null.                      *)
Thrown == [k |-> "throw"]

Index0(data) ==
  CASE data.k = "array"  -> IF Len(data.items) > 0 THEN data.items[1] ELSE Undefined
    [] data.k = "string" -> IF Len(data.s) > 0 THEN Str(<<data.s[1]>>) ELSE Undefined
    [] data.k = "null"   -> Thrown
    [] OTHER             -> Undefined

(* axios default transformResponse: JSON.parse when the text parses,       *)
(* otherwise the text itself is handed over as response.data.              *)
AxiosData(body) == IF body.t = "json" THEN body.v ELSE Str(body.s)

(* axios.get rejects on a network error and on a status outside 2xx.       *)
AxiosRejects(r) == r.net = "error" \/ ~ResponseOk(r)

(* response.json() rejects when the text is not JSON.                      *)
JsonRejects(body) == body.t = "text"

----------------------------------------------------------------------------
(* Movie loader *)

(* The effect without its empty dependency list: it runs after every render. *)
EffectShouldRun_EveryRender == pc \in {"init", "done"} /\ requests < 3

EffectShouldRun == pc = "init"

FetchMovieStart ==
  /\ EffectShouldRun
  /\ requests' = requests + 1
  /\ loading' = IF variant = "fallback" THEN TRUE ELSE loading
  /\ pc' = "awaitResponse"
  /\ lastOp' = "fetch"
  /\ UNCHANGED <<variant, movie, error, inflight, formVars, now>>

Failed(r) ==
  /\ error' = LoadErrorMessage
  /\ movie' = IF variant = "fallback" THEN FallbackMovie ELSE movie
  /\ loading' = FALSE
  /\ pc' = "done"
  /\ inflight' = Null
  /\ lastOp' = "settle"

Loaded(r, data) ==
  /\ movie' = Index0(data)
  /\ error' = IF variant = "fallback" THEN Null ELSE error
  /\ loading' = FALSE
  /\ pc' = "done"
  /\ inflight' = Null
  /\ lastOp' = "settle"

(* src/src/App.jsx: the continuation after `await axios.get(...)`.          *)
AxiosSettle(r) ==
  /\ variant = "fallback"
  /\ pc = "awaitResponse"
  /\ IF AxiosRejects(r) THEN Failed(r)
     ELSE IF Index0(AxiosData(r.body)) = Thrown THEN Failed(r)
     ELSE Loaded(r, AxiosData(r.body))
  /\ UNCHANGED <<variant, requests, formVars, now>>

(* src/unnamed/part_000: the continuation after `await fetch(...)`.         *)
FetchSettle(r) ==
  /\ variant = "errorScreen"
  /\ pc = "awaitResponse"
  /\ IF r.net = "error" \/ ~ResponseOk(r)
     THEN Failed(r)
     ELSE /\ pc' = "awaitJson"
          /\ inflight' = r
          /\ lastOp' = "response"
          /\ UNCHANGED <<movie, error, loading>>
  /\ UNCHANGED <<variant, requests, formVars, now>>

(* src/unnamed/part_000: the continuation after `await response.json()`.    *)
JsonSettle ==
  /\ variant = "errorScreen"
  /\ pc = "awaitJson"
  /\ IF JsonRejects(inflight.body) THEN Failed(inflight)
     ELSE IF Index0(inflight.body.v) = Thrown THEN Failed(inflight)
     ELSE Loaded(inflight, inflight.body.v)
  /\ UNCHANGED <<variant, requests, formVars, now>>

----------------------------------------------------------------------------
(* Comment form: yup schema *)

NoMessage == "none"

CommentRequiredMessage == "Le commentaire est obligatoire"

CommentMaxMessage == "Le commentaire ne doit pas depasser 500 caracteres"

NoteTypeErrorMessage ==
  IF variant = "errorScreen" THEN "Veuillez selectionner une note"
  ELSE "note must be a number type"

NoteRangeMessage == "La note doit etre entre 1 et 5"

AcceptMessage == "Vous devez accepter les conditions generales"

Digits == {"0", "1", "2", "3", "4", "5", "6", "7", "8", "9"}

DigitValue(c) ==
  CASE c = "0" -> 0 [] c = "1" -> 1 [] c = "2" -> 2 [] c = "3" -> 3
    [] c = "4" -> 4 [] c = "5" -> 5 [] c = "6" -> 6 [] c = "7" -> 7
    [] c = "8" -> 8 [] c = "9" -> 9

RECURSIVE DigitsValue(_)
DigitsValue(s) ==
  IF Len(s) = 0 THEN 0
  ELSE 10 * DigitsValue(SubSeq(s, 1, Len(s) - 1)) + DigitValue(s[Len(s)])

AllDigits(s) == Len(s) > 0 /\ \A i \in 1..Len(s) : s[i] \in Digits

(* yup number cast of a string: the empty string and text that is not a     *)
(* numeral give NaN; numerals with at most one fractional digit are read.   *)
(* The result is [nan, tenths].                                             *)
NaN == [nan |-> TRUE, tenths |-> 0]

CastNumber(raw) ==
  IF AllDigits(raw) THEN [nan |-> FALSE, tenths |-> 10 * DigitsValue(raw)]
  ELSE IF /\ Len(raw) >= 3
          /\ raw[Len(raw) - 1] = "."
          /\ AllDigits(SubSeq(raw, 1, Len(raw) - 2))
          /\ raw[Len(raw)] \in Digits
       THEN [nan |-> FALSE,
             tenths |-> 10 * DigitsValue(SubSeq(raw, 1, Len(raw) - 2))
                          + DigitValue(raw[Len(raw)])]
       ELSE NaN

(* max() written as an exclusive bound. *)
ValidateComment_OffByOne(v) ==
  IF Len(v) = 0 THEN CommentRequiredMessage
  ELSE IF Len(v) >= MaxCommentLen THEN CommentMaxMessage
  ELSE NoMessage

(* The schema without its max() rule. *)
ValidateComment_NoMax(v) ==
  IF Len(v) = 0 THEN CommentRequiredMessage ELSE NoMessage

(* comment: yup.string().required(...).max(500, ...) *)
ValidateComment(v) ==
  IF Len(v) = 0 THEN CommentRequiredMessage
  ELSE IF Len(v) > MaxCommentLen THEN CommentMaxMessage
  ELSE NoMessage

(* note: yup.number().required(...).min(1, ...).max(5, ...) *)
ValidateNote(raw) ==
  LET n == CastNumber(raw) IN
  IF n.nan THEN NoteTypeErrorMessage
  ELSE IF n.tenths < 10 * MinNote THEN NoteRangeMessage
  ELSE IF n.tenths > 10 * MaxNote THEN NoteRangeMessage
  ELSE NoMessage

(* acceptConditions: yup.boolean().oneOf([true], ...); the value is <<>>    *)
(* when the key is absent, <<b>> when it is the boolean b.  oneOf does not  *)
(* test an undefined value.                                                 *)
ValidateAccept(a) ==
  IF a = <<>> THEN NoMessage
  ELSE IF a[1] = TRUE THEN NoMessage
  ELSE AcceptMessage

Resolver(data) ==
  [comment |-> ValidateComment(data.comment),
   note |-> ValidateNote(data.note),
   acceptConditions |-> ValidateAccept(data.acceptConditions)]

NoErrors ==
  [comment |-> NoMessage, note |-> NoMessage, acceptConditions |-> NoMessage]

(* The form after reset(): empty textarea, placeholder option, unchecked.  *)
DefaultFields == [comment |-> <<>>, note |-> <<>>, acceptConditions |-> <<FALSE>>]

----------------------------------------------------------------------------
(* Comment store (redux slice) *)

addComment(list, c) == Append(list, c)

RECURSIVE deleteComment(_, _)
deleteComment(list, id) ==
  IF Len(list) = 0 THEN list
  ELSE IF Head(list).id = id THEN Tail(list)
  ELSE <<Head(list)>> \o deleteComment(Tail(list), id)

----------------------------------------------------------------------------
(* Handlers *)

LocaleDateString(t) == ToString(t \div MsPerDay)

(* The comment built by spreading the form data into it. *)
NewComment_Spread(data) ==
  [id |-> ToString(now),
   comment |-> data.comment,
   note |-> CastNumber(data.note).tenths,
   acceptConditions |-> data.acceptConditions,
   createdAt |-> LocaleDateString(now)]

NewComment(data) ==
  [id |-> ToString(now),
   comment |-> data.comment,
   note |-> CastNumber(data.note).tenths,
   createdAt |-> LocaleDateString(now)]

(* onSubmit(data): dispatch(addComment(newComment)); reset() *)
onSubmit(data) ==
  /\ comments' = addComment(comments, NewComment(data))
  /\ fields' = DefaultFields
  /\ errors' = NoErrors

(* handleSubmit that resets the form on the error path as well. *)
HandleSubmit_ResetOnError(data) ==
  /\ lastOp' = "submit"
  /\ IF Resolver(data) = NoErrors
     THEN /\ Len(comments) < MaxComments
          /\ onSubmit(data)
     ELSE /\ fields' = DefaultFields
          /\ errors' = Resolver(data)
          /\ comments' = comments
  /\ UNCHANGED <<loaderVars, now>>

(* handleSubmit(onSubmit): the resolver runs first; onSubmit is called only *)
(* when no field has an error, otherwise the errors are published and the   *)
(* fields keep what was entered.                                            *)
HandleSubmit(data) ==
  /\ lastOp' = "submit"
  /\ IF Resolver(data) = NoErrors
     THEN /\ Len(comments) < MaxComments
          /\ onSubmit(data)
     ELSE /\ fields' = data
          /\ errors' = Resolver(data)
          /\ comments' = comments
  /\ UNCHANGED <<loaderVars, now>>

(* handleDelete that dispatches the removal twice. *)
HandleDelete_Twice(id) ==
  /\ comments' = deleteComment(deleteComment(comments, id), id)
  /\ lastOp' = "delete"
  /\ UNCHANGED <<loaderVars, fields, errors, now>>

(* handleDelete(id): dispatch(deleteComment(id)) *)
HandleDelete(id) ==
  /\ comments' = deleteComment(comments, id)
  /\ lastOp' = "delete"
  /\ UNCHANGED <<loaderVars, fields, errors, now>>

(* The form and the list are rendered once loading has ended; part_000      *)
(* returns the error screen instead when error is set.                      *)
FormRendered ==
  /\ ~loading
  /\ (variant = "errorScreen" => error = Null)

Repeat(n, c) == [i \in 1..n |-> c]

(* What the rendered controls can hold: any text in the textarea, one of    *)
(* the options of the select, a checked or unchecked box.                   *)
NoteOptions == {<<>>, <<"1">>, <<"2">>, <<"3">>, <<"4">>, <<"5">>}

UiCommentInputs ==
  {Repeat(n, "a") : n \in {0, 1, MaxCommentLen, MaxCommentLen + 1}}

UiNoteInputs == {<<>>, <<"5">>}

UiData ==
  [comment : UiCommentInputs, note : UiNoteInputs,
   acceptConditions : {<<TRUE>>, <<FALSE>>}]

(* What a caller of the handlers can pass. *)
RawCommentInputs == {Repeat(n, "a") : n \in {0, 1}}

RawNoteInputs ==
  {<<>>, <<"0">>, <<"1">>, <<"2", ".", "5">>, <<"5">>, <<"6">>, <<"x">>}

RawData ==
  [comment : RawCommentInputs, note : RawNoteInputs,
   acceptConditions : {<<>>, <<TRUE>>, <<FALSE>>}]

Ids == {ToString(t) : t \in 0..MaxClock}

DisplayedIds == {comments[i].id : i \in 1..Len(comments)}

ClickSubmit(data) == FormRendered /\ HandleSubmit(data)

ClickDelete(id) == FormRendered /\ HandleDelete(id)

Tick ==
  /\ now < MaxClock
  /\ now' = now + 1
  /\ lastOp' = "tick"
  /\ UNCHANGED <<loaderVars, formVars>>

----------------------------------------------------------------------------
(* Specifications *)

Init ==
  /\ variant \in Variants
  /\ pc = "init"
  /\ loading = TRUE
  /\ movie = Null
  /\ error = Null
  /\ inflight = Null
  /\ requests = 0
  /\ fields = DefaultFields
  /\ errors = NoErrors
  /\ comments = <<>>
  /\ now = 0
  /\ lastOp = "init"

Next ==
  \/ FetchMovieStart
  \/ \E r \in Responses : AxiosSettle(r)
  \/ \E r \in Responses : FetchSettle(r)
  \/ JsonSettle
  \/ \E data \in UiData : ClickSubmit(data)
  \/ \E id \in DisplayedIds : ClickDelete(id)
  \/ Tick

Spec == Init /\ [][Next]_vars

(* The handlers driven directly, with any arguments. *)
NextHandlers ==
  \/ \E data \in RawData : HandleSubmit(data)
  \/ \E id \in Ids : HandleDelete(id)
  \/ Tick

SpecHandlers == Init /\ [][NextHandlers]_vars

----------------------------------------------------------------------------
(* Loader properties *)

MoviePresent == movie.k = "movie"

NoMovie == movie \in {Null, Undefined}

(* A body that is not a JSON array: text that is not JSON, or a JSON value  *)
(* of another kind.                                                         *)
MalformedBody(b) == b.t = "text" \/ b.v.k # "array"

RequestFailed(r) ==
  r.net = "error" \/ ~ResponseOk(r) \/ MalformedBody(r.body)

ErrorTerminal ==
  /\ ~loading'
  /\ error' # Null
  /\ movie' = IF variant = "fallback" THEN FallbackMovie ELSE Null

(* C1: once loading has ended, (movie, error) is one of: movie present and  *)
(* no error; error set and no movie; error set and the fallback movie.      *)
C1_ThreeTerminalStates ==
  ~loading =>
    \/ MoviePresent /\ error = Null
    \/ error # Null /\ NoMovie
    \/ error # Null /\ movie = FallbackMovie

(* C2: every failed request (network error, non-success status, malformed   *)
(* body) ends loading with the error set, with the fallback movie in        *)
(* src/src/App.jsx and with no movie in src/unnamed/part_000.               *)
C2_FailureEndsInErrorState ==
  [][ /\ \A r \in Responses :
           (RequestFailed(r) /\ AxiosSettle(r)) => ErrorTerminal
      /\ \A r \in Responses :
           ((r.net = "error" \/ ~ResponseOk(r)) /\ FetchSettle(r)) => ErrorTerminal
      /\ (inflight # Null /\ MalformedBody(inflight.body) /\ JsonSettle)
           => ErrorTerminal ]_vars

(* C3: one request per page load; loading starts true and ends at most      *)
(* once; after it has ended, loading, movie and error never change.         *)
C3_LoadedOnce ==
  /\ [](/\ requests <= 1
        /\ (pc = "init" => loading /\ requests = 0)
        /\ (~loading => requests = 1))
  /\ [][~loading => (~loading' /\ movie' = movie /\ error' = error)]_vars

C3_Witness ==
  ~loading /\ requests = 1 /\ Len(comments) > 0 /\ lastOp = "delete"

----------------------------------------------------------------------------
(* Form properties *)

IntegerNotes == {<<ToString(k)>> : k \in MinNote..MaxNote}

BodyInRange(d) == Len(d.comment) >= 1 /\ Len(d.comment) <= MaxCommentLen

FieldNames == {"comment", "note", "acceptConditions"}

FieldInvalid(f, d) ==
  CASE f = "comment" -> ~BodyInRange(d)
    [] f = "note" -> d.note \notin IntegerNotes
    [] f = "acceptConditions" -> d.acceptConditions # <<TRUE>>

(* C4: a submission with an invalid field changes neither the list nor the  *)
(* fields, and exactly the invalid fields get a message.                    *)
C4_RejectedSubmissionMutatesNothing ==
  [][ \A d \in UiData :
        (ClickSubmit(d) /\ \E f \in FieldNames : FieldInvalid(f, d)) =>
          /\ comments' = comments
          /\ fields' = d
          /\ \A f \in FieldNames : (errors'[f] # NoMessage) <=> FieldInvalid(f, d)
    ]_vars

C4_Witness ==
  /\ lastOp = "submit"
  /\ Len(comments) > 0
  /\ errors.acceptConditions # NoMessage
  /\ errors.comment = NoMessage
  /\ errors.note = NoMessage
  /\ fields # DefaultFields

(* C5: the rating passes validation if and only if it is an integer from 1  *)
(* to 5; the placeholder, 0, 6 and a non-integer such as 2.5 are rejected.  *)
C5_RatingIntegerOneToFive ==
  [][ \A d \in RawData :
        HandleSubmit(d) =>
          ((errors'.note = NoMessage) <=> d.note \in IntegerNotes)
    ]_vars

(* C6: the body passes validation if and only if it has 1 to 500            *)
(* characters; empty gets the required message, 501 the length message.     *)
C6_BodyOneToFiveHundred ==
  [][ \A d \in UiData :
        ClickSubmit(d) =>
          /\ (errors'.comment = NoMessage) <=> BodyInRange(d)
          /\ Len(d.comment) = 0 => errors'.comment = CommentRequiredMessage
          /\ Len(d.comment) = MaxCommentLen + 1 => errors'.comment = CommentMaxMessage
    ]_vars

C6_Witness ==
  /\ lastOp = "submit"
  /\ errors.comment = CommentMaxMessage
  /\ Len(fields.comment) = MaxCommentLen + 1
  /\ \E i \in 1..Len(comments) : Len(comments[i].comment) = MaxCommentLen

(* C7: a submission whose acknowledgment is not exactly true (false or      *)
(* absent) is rejected and appends nothing, whatever the other fields.      *)
C7_UnacknowledgedRejected ==
  [][ \A d \in RawData :
        (HandleSubmit(d) /\ d.acceptConditions # <<TRUE>>) =>
          /\ comments' = comments
          /\ errors'.acceptConditions # NoMessage
    ]_vars

(* C8: a valid submission appends exactly one comment at the end, with the  *)
(* submitted body, the rating as a number, an id and a date and without     *)
(* the acknowledgment flag, and resets the form.                            *)
C8_ValidSubmissionAppendsOne ==
  [][ \A d \in UiData :
        (ClickSubmit(d) /\ \A f \in FieldNames : ~FieldInvalid(f, d)) =>
          /\ Len(comments') = Len(comments) + 1
          /\ SubSeq(comments', 1, Len(comments)) = comments
          /\ LET c == comments'[Len(comments')] IN
               /\ DOMAIN c = {"id", "comment", "note", "createdAt"}
               /\ c.comment = d.comment
               /\ \E k \in MinNote..MaxNote :
                    d.note = <<ToString(k)>> /\ c.note = 10 * k
          /\ fields' = DefaultFields
          /\ errors' = NoErrors
    ]_vars

C8_Witness ==
  /\ lastOp = "submit"
  /\ Len(comments) >= 2
  /\ fields = DefaultFields
  /\ comments[1].id = comments[2].id
  /\ comments[1].comment # comments[2].comment

----------------------------------------------------------------------------
(* Store properties *)

Matches(list, id) == {i \in 1..Len(list) : list[i].id = id}

FirstMatch(list, id) ==
  CHOOSE i \in Matches(list, id) : \A j \in Matches(list, id) : i <= j

WithoutIndex(list, i) == SubSeq(list, 1, i - 1) \o SubSeq(list, i + 1, Len(list))

C10_StoredCommentsValid ==
  \A i \in 1..Len(comments) :
    /\ Len(comments[i].comment) >= 1
    /\ Len(comments[i].comment) <= MaxCommentLen
    /\ \E k \in MinNote..MaxNote : comments[i].note = 10 * k

C10_Witness ==
  /\ Len(comments) = MaxComments
  /\ lastOp = "tick"
  /\ errors # NoErrors
  /\ \E i \in 1..Len(comments) : Len(comments[i].comment) = MaxCommentLen
  /\ \E i \in 1..Len(comments) : comments[i].note = 10 * MaxNote

====
